---- MODULE Spec2Model ----
(***************************************************************************)
(* BufferGenerator_VoxelMesh (Editor/src/renderer/buffer_voxel_mesh.ts):   *)
(* the chunked builder that turns a voxel mesh into vertex/index buffers.  *)
(*                                                                         *)
(* Arrays are functions over 0..len-1, as in the source.  Coordinates are  *)
(* held in units of 1/2, so that the cube template's corners (+-0.5) are   *)
(* the integers +-1 and a voxel at (x,y,z) has position (2x,2y,2z); every  *)
(* such value is exact in a Float32Array.  A result object's identity is   *)
(* its id, the number of result objects allocated before it, plus one.     *)
(***************************************************************************)
EXTENDS Integers, Sequences, FiniteSets, TLC

\* ------------------------------------------------------------------ bounds

MaxVoxels == 3

MaxChunkSize == 2

MaxIndex == 2

\* --------------------------------------------------------------- constants

\* AppConstants (ots-core/src/util/constants)
FACES_PER_VOXEL == 6

VERTICES_PER_FACE == 4

INDICES_PER_VOXEL == 24

COMPONENT_PER_SIZE_OFFSET == FACES_PER_VOXEL * VERTICES_PER_FACE

POSITION == 3 * COMPONENT_PER_SIZE_OFFSET

COLOUR == 4 * COMPONENT_PER_SIZE_OFFSET

OCCLUSION == 4 * COMPONENT_PER_SIZE_OFFSET

TEXCOORD == 2 * COMPONENT_PER_SIZE_OFFSET

NORMAL == 3 * COMPONENT_PER_SIZE_OFFSET

INDICES == 36

\* The occlusion weight 1.0, in the units the occlusion weights are held in.
OcclusionOne == 26

Min(a, b) == IF a < b THEN a ELSE b

Abs(a) == IF a < 0 THEN -a ELSE a

\* ------------------------------------------------------- geometry template

\* twgl.primitives.createCubeVertices(1.0), as copied by
\* GeometryTemplates.getBoxBufferData(new Vector3(0, 0, 0)).
CornerVertices ==
    [c \in 0..7 |->
        [a \in 0..2 |->
            IF (c \div (IF a = 0 THEN 1 ELSE IF a = 1 THEN 2 ELSE 4)) % 2 = 1
            THEN 1 ELSE -1]]

CubeFaceIndices ==
    [f \in 0..5 |->
        CASE f = 0 -> [v \in 0..3 |-> <<3, 7, 5, 1>>[v + 1]]
          [] f = 1 -> [v \in 0..3 |-> <<6, 2, 0, 4>>[v + 1]]
          [] f = 2 -> [v \in 0..3 |-> <<6, 7, 3, 2>>[v + 1]]
          [] f = 3 -> [v \in 0..3 |-> <<0, 1, 5, 4>>[v + 1]]
          [] f = 4 -> [v \in 0..3 |-> <<7, 6, 4, 5>>[v + 1]]
          [] OTHER -> [v \in 0..3 |-> <<2, 3, 1, 0>>[v + 1]]]

FaceNormals ==
    [f \in 0..5 |->
        CASE f = 0 -> [a \in 0..2 |-> <<1, 0, 0>>[a + 1]]
          [] f = 1 -> [a \in 0..2 |-> <<-1, 0, 0>>[a + 1]]
          [] f = 2 -> [a \in 0..2 |-> <<0, 1, 0>>[a + 1]]
          [] f = 3 -> [a \in 0..2 |-> <<0, -1, 0>>[a + 1]]
          [] f = 4 -> [a \in 0..2 |-> <<0, 0, 1>>[a + 1]]
          [] OTHER -> [a \in 0..2 |-> <<0, 0, -1>>[a + 1]]]

UvCoords ==
    [v \in 0..3 |->
        CASE v = 0 -> [a \in 0..1 |-> <<1, 0>>[a + 1]]
          [] v = 1 -> [a \in 0..1 |-> <<0, 0>>[a + 1]]
          [] v = 2 -> [a \in 0..1 |-> <<0, 1>>[a + 1]]
          [] OTHER -> [a \in 0..1 |-> <<1, 1>>[a + 1]]]

\* cube.custom.position: 24 vertices x 3 components
CubePosition ==
    [j \in 0..(POSITION - 1) |->
        CornerVertices[CubeFaceIndices[j \div 12][(j \div 3) % 4]][j % 3]]

\* cube.custom.normal: 24 vertices x 3 components
CubeNormal == [j \in 0..(NORMAL - 1) |-> FaceNormals[j \div 12][j % 3]]

\* cube.custom.texcoord: 24 vertices x 2 components
CubeTexcoord == [j \in 0..(TEXCOORD - 1) |-> UvCoords[(j \div 2) % 4][j % 2]]

\* cube.indices: 6 faces x 2 triangles x 3 corners
CubeIndices ==
    [j \in 0..(INDICES - 1) |->
        4 * (j \div 6) + <<0, 1, 2, 0, 2, 3>>[(j % 6) + 1]]

\* ------------------------------------------------------------- voxel model

\* The voxels a mesh is built from: two diagonal neighbours.
VoxelValues ==
    { [position |-> [x |-> 0, y |-> 2, z |-> 4],
       colour   |-> [r |-> 1, g |-> 0, b |-> 0, a |-> 1]],
      [position |-> [x |-> 2, y |-> 4, z |-> 6],
       colour   |-> [r |-> 0, g |-> 1, b |-> 1, a |-> 0]] }

RECURSIVE SeqsUpTo(_, _)
SeqsUpTo(S, n) ==
    IF n = 0 THEN { <<>> }
    ELSE LET shorter == SeqsUpTo(S, n - 1)
         IN  shorter \cup { Append(s, v) : s \in { t \in shorter : Len(t) = n - 1 }, v \in S }

VoxelMeshes == SeqsUpTo(VoxelValues, MaxVoxels)

ChunkSizes == 1..MaxChunkSize

AnyChunkSizes == { -1, 0 } \cup ChunkSizes

\* Vector3.toArray
ToArray(vec) == [a \in 0..2 |-> IF a = 0 THEN vec.x ELSE IF a = 1 THEN vec.y ELSE vec.z]

\* OtS_VoxelMesh_Neighbourhood.process(voxelMesh, 'non-cardinal'): what the
\* index keeps of the mesh is which cells are occupied.
Process(mesh) == { mesh[n].position : n \in 1..Len(mesh) }

\* OtSE_AmbientOcclusion.GetOcclusions: 24 vertices x 4 weights, a function of
\* the occupied cells among the 26 around the position.
GetOcclusions(position, neighbourhood) ==
    LET around == { q \in neighbourhood :
                       /\ q # position
                       /\ Abs(q.x - position.x) <= 2
                       /\ Abs(q.y - position.y) <= 2
                       /\ Abs(q.z - position.z) <= 2 }
    IN  [j \in 0..(OCCLUSION - 1) |-> OcclusionOne - Cardinality(around)]

\* ------------------------------------------------------------------- state

VARIABLES
    voxelMesh,                     \* the source model's voxels, as they are now
    voxels,                        \* _voxels
    createAmbientOcclusionBuffer,  \* _createAmbientOcclusionBuffer
    nextChunkIndex,                \* _nextChunkIndex
    numTotalVoxels,                \* _numTotalVoxels
    cache,                         \* _cache: chunk index -> result object
    neighbourhood,                 \* _neighbourhood (NoNeighbourhood for null)
    chunkSize,                     \* AppConfig.Get.VOXEL_BUFFER_CHUNK_SIZE
    allocated,                     \* result objects allocated so far
    ret,                           \* the last call and what it returned or threw
    constructedFrom,               \* history: the mesh as the constructor saw it
    returned,                      \* history: ids returned by getNext, in order
    producedAfterEdit              \* history: a chunk was produced from an edited mesh

vars == << voxelMesh, voxels, createAmbientOcclusionBuffer, nextChunkIndex,
           numTotalVoxels, cache, neighbourhood, chunkSize, allocated, ret,
           constructedFrom, returned,
                    producedAfterEdit >>

NoNeighbourhood == "null"

NoObject == 0

NoArg == -2

IndexArgs == -1..MaxIndex

\* --------------------------------------------------------- typed arrays

Length(array) == Cardinality(DOMAIN array)

\* new Float32Array(length) / new Uint32Array(length): zero-filled; a negative
\* length throws a RangeError (callers test Allocatable first).
Allocatable(length) == length >= 0

NewArray(length) == [idx \in 0..(length - 1) |-> 0]

\* Float32Array.prototype.fill(value)
Fill(array, value) == [idx \in DOMAIN array |-> value]

\* A set() that drops what does not fit instead of throwing.
TypedArraySetClamped(target, source, offset) ==
    [ok   |-> TRUE,
     data |-> [idx \in DOMAIN target |->
                  IF idx >= offset /\ idx - offset < Length(source)
                  THEN source[idx - offset] ELSE target[idx]]]

\* TypedArray.prototype.set(source, offset): a RangeError when the source does
\* not fit; ok is FALSE for the throw.
TypedArraySet(target, source, offset) ==
    IF Length(source) + offset > Length(target)
    THEN [ok |-> FALSE, data |-> target]
    ELSE [ok   |-> TRUE,
          data |-> [idx \in DOMAIN target |->
                       IF idx >= offset /\ idx - offset < Length(source)
                       THEN source[idx - offset] ELSE target[idx]]]

\* OtS_Util.Array.repeatedFill(buffer, start, stride, count): the stride
\* elements at start, repeated count times from start on.
RepeatedFill(buffer, start, stride, count) ==
    [idx \in DOMAIN buffer |->
        IF idx >= start /\ idx < start + stride * count
        THEN buffer[start + ((idx - start) % stride)]
        ELSE buffer[idx]]

\* ------------------------------------------------------- _fromVoxelMesh

\* A start index that forgets the chunk size.
VoxelsStartIndexUnscaled(chunkIndex, size) == chunkIndex

VoxelsStartIndex(chunkIndex, size) == chunkIndex * size

VoxelsEndIndex(chunkIndex, size, total) == Min((chunkIndex + 1) * size, total)

\* An assertion that lets the start index reach the total.
StartIndexValidInclusive(start, total) == start <= total

\* ASSERT(voxelsStartIndex < this._numTotalVoxels, 'Invalid voxel start index')
StartIndexValid(start, total) == start < total

\* A read of the source model as it is now, where it still has the voxel.
VoxelAtLiveMesh(index) ==
    IF index + 1 <= Len(voxelMesh) THEN voxelMesh[index + 1] ELSE voxels[index + 1]

\* this._voxels[index]
VoxelAt(index) == voxels[index + 1]

\* A position loop that reads the voxel at the local index.
PositionDataLocal(start, numBufferVoxels) ==
    [idx \in 0..(numBufferVoxels * POSITION - 1) |->
        LET i == idx \div POSITION
            j == idx % POSITION
            voxelPositionArray == ToArray(voxels[i + 1].position)
        IN  CubePosition[j] + voxelPositionArray[j % 3]]

\* Build position buffer
PositionData(start, numBufferVoxels) ==
    [idx \in 0..(numBufferVoxels * POSITION - 1) |->
        LET i == idx \div POSITION
            j == idx % POSITION
            voxelPositionArray == ToArray(VoxelAt(i + start).position)
        IN  CubePosition[j] + voxelPositionArray[j % 3]]

\* Build colour buffer
RECURSIVE ColourLoop(_, _, _, _)
ColourLoop(data, i, start, numBufferVoxels) ==
    IF ~(i < numBufferVoxels) THEN data
    ELSE LET voxel == VoxelAt(i + start)
             written == [idx \in DOMAIN data |->
                            CASE idx = i * 96 + 0 -> voxel.colour.r
                              [] idx = i * 96 + 1 -> voxel.colour.g
                              [] idx = i * 96 + 2 -> voxel.colour.b
                              [] idx = i * 96 + 3 -> voxel.colour.a
                              [] OTHER -> data[idx]]
         IN  ColourLoop(RepeatedFill(written, i * 96, 4, 24), i + 1, start, numBufferVoxels)

ColourData(start, numBufferVoxels) ==
    ColourLoop(NewArray(numBufferVoxels * COLOUR), 0, start, numBufferVoxels)

\* Build normal buffer
NormalData(numBufferVoxels) ==
    LET placed == TypedArraySet(NewArray(numBufferVoxels * NORMAL), CubeNormal, 0)
    IN  [ok   |-> placed.ok,
         data |-> RepeatedFill(placed.data, 0, 72, numBufferVoxels)]

\* Build texcoord buffer
TexcoordData(numBufferVoxels) ==
    LET placed == TypedArraySet(NewArray(numBufferVoxels * TEXCOORD), CubeTexcoord, 0)
    IN  [ok   |-> placed.ok,
         data |-> RepeatedFill(placed.data, 0, 48, numBufferVoxels)]

\* An index loop that offsets by the indices per voxel, not the vertices.
IndicesDataByIndexCount(numBufferVoxels) ==
    [idx \in 0..(numBufferVoxels * INDICES - 1) |->
        LET i == idx \div INDICES
            j == idx % INDICES
        IN  CubeIndices[j] + (i * INDICES)]

\* Build indices buffer.  The values stay below 24 * numBufferVoxels, far
\* inside what a Uint32Array element holds, so they are stored unchanged.
IndicesData(numBufferVoxels) ==
    [idx \in 0..(numBufferVoxels * INDICES - 1) |->
        LET i == idx \div INDICES
            j == idx % INDICES
        IN  CubeIndices[j] + (i * INDICES_PER_VOXEL)]

\* Build occlusion buffer
RECURSIVE OcclusionLoop(_, _, _, _)
OcclusionLoop(data, i, start, numBufferVoxels) ==
    IF ~(i < numBufferVoxels) THEN data
    ELSE LET voxel == VoxelAt(i + start)
             voxelOcclusionArray == GetOcclusions(voxel.position, neighbourhood)
         IN  OcclusionLoop(TypedArraySet(data, voxelOcclusionArray, i * OCCLUSION).data,
                           i + 1, start, numBufferVoxels)

OcclusionData(start, numBufferVoxels) ==
    LET filled == Fill(NewArray(numBufferVoxels * OCCLUSION), OcclusionOne)
    IN  IF createAmbientOcclusionBuffer
        THEN OcclusionLoop(filled, 0, start, numBufferVoxels)
        ELSE filled

\* A flag computed from the end index before it is clamped to the total.
MoreVoxelsToBufferUnclamped(chunkIndex, size, total) == (chunkIndex + 1) * size # total

\* moreVoxelsToBuffer: voxelsEndIndex !== this._numTotalVoxels
MoreVoxelsToBuffer(chunkIndex, size, total) == VoxelsEndIndex(chunkIndex, size, total) # total

\* A progress that counts the chunk being returned as done.
ProgressAtEnd(chunkIndex, size, total) ==
    [num |-> VoxelsEndIndex(chunkIndex, size, total), den |-> total]

\* progress: voxelsStartIndex / this._numTotalVoxels, as the fraction num/den
Progress(chunkIndex, size, total) ==
    [num |-> VoxelsStartIndex(chunkIndex, size), den |-> total]

Thrown(kind) == [status |-> kind, value |-> NoObject]

\* _fromVoxelMesh(chunkIndex): the result object, or what it throws.
FromVoxelMesh(chunkIndex) ==
    LET voxelsStartIndex == VoxelsStartIndex(chunkIndex, chunkSize)
        voxelsEndIndex == VoxelsEndIndex(chunkIndex, chunkSize, numTotalVoxels)
        numBufferVoxels == voxelsEndIndex - voxelsStartIndex
    IN  IF ~StartIndexValid(voxelsStartIndex, numTotalVoxels) THEN Thrown("assert")
        ELSE IF ~Allocatable(numBufferVoxels) THEN Thrown("rangeError")
        ELSE LET normal == NormalData(numBufferVoxels)
                 texcoord == TexcoordData(numBufferVoxels)
                 indices == IndicesData(numBufferVoxels)
             IN  IF ~normal.ok \/ ~texcoord.ok THEN Thrown("rangeError")
                 ELSE [status |-> "ok",
                       value  |->
                         [id     |-> allocated + 1,
                          buffer |->
                            [position  |-> [numComponents |-> 3,
                                            data |-> PositionData(voxelsStartIndex, numBufferVoxels)],
                             colour    |-> [numComponents |-> 4,
                                            data |-> ColourData(voxelsStartIndex, numBufferVoxels)],
                             occlusion |-> [numComponents |-> 4,
                                            data |-> OcclusionData(voxelsStartIndex, numBufferVoxels)],
                             texcoord  |-> [numComponents |-> 2, data |-> texcoord.data],
                             normal    |-> [numComponents |-> 3, data |-> normal.data],
                             indices   |-> [numComponents |-> 3, data |-> indices]],
                          numElements        |-> Length(indices),
                          moreVoxelsToBuffer |-> MoreVoxelsToBuffer(chunkIndex, chunkSize, numTotalVoxels),
                          progress           |-> Progress(chunkIndex, chunkSize, numTotalVoxels)]]

\* ---------------------------------------------------------------- actions

\* Map.prototype.set
MapSet(map, key, value) ==
    [k \in (DOMAIN map) \cup {key} |-> IF k = key THEN value ELSE map[k]]

\* constructor(voxelMesh, createAmbientOcclusionBuffer), with the configured
\* chunk size drawn from sizes.
Constructed(sizes) ==
    /\ voxelMesh \in VoxelMeshes
    /\ createAmbientOcclusionBuffer \in BOOLEAN
    /\ chunkSize \in sizes
    /\ voxels = voxelMesh
    /\ nextChunkIndex = 0
    /\ numTotalVoxels = Len(voxelMesh)
    /\ cache = << >>
    /\ neighbourhood = IF createAmbientOcclusionBuffer THEN Process(voxelMesh)
                       ELSE NoNeighbourhood
    /\ allocated = 0
    /\ ret = [op |-> "new", arg |-> NoArg, status |-> "ok", obj |-> NoObject]
    /\ constructedFrom = voxelMesh
    /\ returned = << >>
    /\ producedAfterEdit = FALSE

Init == Constructed(ChunkSizes)

InitAnyChunkSize == Constructed(AnyChunkSizes)

\* What no operation of the builder assigns after construction.
fixed == << voxels, createAmbientOcclusionBuffer, numTotalVoxels, neighbourhood,
            chunkSize, constructedFrom >>

\* A getNext() that advances the cursor before it stores the chunk.
GetNextIncrementFirst ==
    /\ nextChunkIndex <= MaxVoxels
    /\ LET buffer == FromVoxelMesh(nextChunkIndex)
       IN  IF buffer.status = "ok"
           THEN /\ cache' = MapSet(cache, nextChunkIndex + 1, buffer.value)
                /\ nextChunkIndex' = nextChunkIndex + 1
                /\ allocated' = allocated + 1
                /\ ret' = [op |-> "getNext", arg |-> NoArg, status |-> "ok",
                           obj |-> buffer.value.id]
                /\ returned' = Append(returned, buffer.value.id)
                /\ producedAfterEdit' = (producedAfterEdit \/ voxelMesh # constructedFrom)
           ELSE /\ ret' = [op |-> "getNext", arg |-> NoArg, status |-> buffer.status,
                           obj |-> NoObject]
                /\ UNCHANGED << cache, nextChunkIndex, allocated, returned,
                                producedAfterEdit >>
    /\ UNCHANGED << voxelMesh, fixed >>

\* getNext(): a throw of _fromVoxelMesh leaves the builder as it was.  The
\* guard stops a cursor that no throw would stop.
GetNext ==
    /\ nextChunkIndex <= MaxVoxels
    /\ LET buffer == FromVoxelMesh(nextChunkIndex)
       IN  IF buffer.status = "ok"
           THEN /\ cache' = MapSet(cache, nextChunkIndex, buffer.value)
                /\ nextChunkIndex' = nextChunkIndex + 1
                /\ allocated' = allocated + 1
                /\ ret' = [op |-> "getNext", arg |-> NoArg, status |-> "ok",
                           obj |-> buffer.value.id]
                /\ returned' = Append(returned, buffer.value.id)
                /\ producedAfterEdit' = (producedAfterEdit \/ voxelMesh # constructedFrom)
           ELSE /\ ret' = [op |-> "getNext", arg |-> NoArg, status |-> buffer.status,
                           obj |-> NoObject]
                /\ UNCHANGED << cache, nextChunkIndex, allocated, returned,
                                producedAfterEdit >>
    /\ UNCHANGED << voxelMesh, fixed >>

\* A getFromIndex(index) that builds the chunk again instead of looking it up.
GetFromIndexRegenerating(index) ==
    /\ LET buffer == FromVoxelMesh(index)
       IN  IF index \in DOMAIN cache /\ buffer.status = "ok"
           THEN /\ ret' = [op |-> "getFromIndex", arg |-> index, status |-> "ok",
                           obj |-> buffer.value.id]
                /\ allocated' = allocated + 1
           ELSE /\ ret' = [op |-> "getFromIndex", arg |-> index, status |-> "undefined",
                           obj |-> NoObject]
                /\ UNCHANGED allocated
    /\ UNCHANGED << voxelMesh, fixed, nextChunkIndex, cache, returned, producedAfterEdit >>

\* getFromIndex(index): Map.prototype.get
GetFromIndex(index) ==
    /\ ret' = IF index \in DOMAIN cache
              THEN [op |-> "getFromIndex", arg |-> index, status |-> "ok",
                    obj |-> cache[index].id]
              ELSE [op |-> "getFromIndex", arg |-> index, status |-> "undefined",
                    obj |-> NoObject]
    /\ UNCHANGED << voxelMesh, fixed, nextChunkIndex, cache, allocated, returned,
                    producedAfterEdit >>

builder == << fixed, nextChunkIndex, cache, allocated, ret, returned, producedAfterEdit >>

\* The source model changes after construction: a voxel is added, ...
AddVoxel(voxel) ==
    /\ Len(voxelMesh) < MaxVoxels
    /\ voxelMesh' = Append(voxelMesh, voxel)
    /\ UNCHANGED builder

\* ... removed, ...
RemoveVoxel(n) ==
    /\ n \in 1..Len(voxelMesh)
    /\ voxelMesh' = [m \in 1..(Len(voxelMesh) - 1) |->
                        IF m < n THEN voxelMesh[m] ELSE voxelMesh[m + 1]]
    /\ UNCHANGED builder

\* ... or replaced by another.
ReplaceVoxel(n, voxel) ==
    /\ n \in 1..Len(voxelMesh)
    /\ voxelMesh[n] # voxel
    /\ voxelMesh' = [voxelMesh EXCEPT ![n] = voxel]
    /\ UNCHANGED builder

\* The builder's two operations, on a source model nobody edits.
Next ==
    \/ GetNext
    \/ \E index \in IndexArgs : GetFromIndex(index)

\* Chunk production interleaved with edits of the source model.
NextMutableMesh ==
    \/ GetNext
    \/ \E voxel \in VoxelValues : AddVoxel(voxel)
    \/ \E n \in 1..MaxVoxels : RemoveVoxel(n)
    \/ \E n \in 1..MaxVoxels, voxel \in VoxelValues : ReplaceVoxel(n, voxel)

Spec == Init /\ [][Next]_vars

\* The same builder under a configuration that also allows a chunk size <= 0.
SpecAnyChunkSize == InitAnyChunkSize /\ [][Next]_vars

SpecMutableMesh == Init /\ [][NextMutableMesh]_vars

\* ------------------------------------------------------------------ claims

\* ceil(n / s) for s >= 1
CeilDiv(n, s) == (n + s - 1) \div s

\* The voxel count of a result object, from its element count.
CountOf(chunk) == chunk.numElements \div INDICES

\* The voxels buffered by the chunks cached below cursor k.
RECURSIVE CountBelow(_)
CountBelow(k) == IF k <= 0 THEN 0 ELSE CountOf(cache[k - 1]) + CountBelow(k - 1)

\* The chunk holds the colour and the first vertex of exactly the voxels
\* mesh[lo + 1 .. hi] (global indices lo .. hi - 1), in that order.
Covers(chunk, mesh, lo, hi) ==
    /\ CountOf(chunk) = hi - lo
    /\ chunk.numElements = INDICES * (hi - lo)
    /\ Length(chunk.buffer.colour.data) = COLOUR * (hi - lo)
    /\ Length(chunk.buffer.position.data) = POSITION * (hi - lo)
    /\ \A i \in 0..(hi - lo - 1) :
          LET voxel == mesh[lo + i + 1]
          IN  /\ chunk.buffer.colour.data[COLOUR * i] = voxel.colour.r
              /\ chunk.buffer.colour.data[COLOUR * i + 1] = voxel.colour.g
              /\ chunk.buffer.colour.data[COLOUR * i + 2] = voxel.colour.b
              /\ chunk.buffer.colour.data[COLOUR * i + 3] = voxel.colour.a
              /\ chunk.buffer.position.data[POSITION * i] = CubePosition[0] + voxel.position.x
              /\ chunk.buffer.position.data[POSITION * i + 1] = CubePosition[1] + voxel.position.y
              /\ chunk.buffer.position.data[POSITION * i + 2] = CubePosition[2] + voxel.position.z

GetNextFailed == ret.op = "getNext" /\ ret.status # "ok"

\* C1: with a chunk size S >= 1 and N voxels, getNext produces exactly
\* ceil(N / S) chunks before its first failing call; the k-th chunk covers the
\* voxels with global index in [k*S, min((k+1)*S, N)), in snapshot order; and
\* once all chunks are produced the per-chunk voxel counts sum to N.
C1_ChunksPartitionVoxels ==
    /\ nextChunkIndex <= CeilDiv(numTotalVoxels, chunkSize)
    /\ Len(returned) = nextChunkIndex
    /\ GetNextFailed => nextChunkIndex = CeilDiv(numTotalVoxels, chunkSize)
    /\ \A k \in DOMAIN cache :
          Covers(cache[k], voxels, k * chunkSize,
                 Min((k + 1) * chunkSize, numTotalVoxels))
    /\ CountBelow(nextChunkIndex) = Min(nextChunkIndex * chunkSize, numTotalVoxels)
    /\ nextChunkIndex = CeilDiv(numTotalVoxels, chunkSize)
          => CountBelow(nextChunkIndex) = numTotalVoxels

\* Three voxels in chunks of two: both chunks produced, the second one short,
\* and the call after them has failed.
C1_Witness ==
    /\ numTotalVoxels = 3
    /\ chunkSize = 2
    /\ nextChunkIndex = 2
    /\ CountOf(cache[1]) = 1
    /\ voxels[3] # voxels[1]
    /\ GetNextFailed

\* C2: a getNext call made when cursor * chunkSize >= N fails the 'Invalid
\* voxel start index' assertion and leaves the builder as it was; no chunk that
\* getNext returned is empty, and none starts at or beyond N.
C2_PastTheEndAsserts ==
    /\ [](\A k \in DOMAIN cache :
             /\ CountOf(cache[k]) >= 1
             /\ k * chunkSize < numTotalVoxels)
    /\ [][ (ret'.op = "getNext" /\ nextChunkIndex * chunkSize >= numTotalVoxels)
              => /\ ret'.status = "assert"
                 /\ ret'.obj = NoObject
                 /\ cache' = cache
                 /\ nextChunkIndex' = nextChunkIndex ]_vars

\* The call after the last chunk of a non-empty mesh has failed the assertion.
C2_Witness ==
    /\ ret.op = "getNext"
    /\ ret.status = "assert"
    /\ numTotalVoxels >= 1
    /\ nextChunkIndex >= 1
    /\ nextChunkIndex * chunkSize >= numTotalVoxels

\* C3: getFromIndex(k), k >= 0, returns undefined while fewer than k + 1
\* getNext calls have succeeded, and from then on the very object (same
\* identity) that the (k+1)-th successful getNext returned, however many more
\* chunks are produced.
C3_LookupReturnsProducedObject ==
    (ret.op = "getFromIndex" /\ ret.arg >= 0)
        => IF Len(returned) < ret.arg + 1
           THEN ret.status = "undefined" /\ ret.obj = NoObject
           ELSE ret.status = "ok" /\ ret.obj = returned[ret.arg + 1]

\* Chunk 0 looked up after two more chunks were produced.
C3_Witness ==
    /\ ret.op = "getFromIndex"
    /\ ret.arg = 0
    /\ ret.status = "ok"
    /\ Len(returned) = 3

\* C4: with a chunk size <= 0 no getNext call returns a chunk: every call
\* throws, nothing is cached and the cursor stays at 0.
C4_NoChunkForNonPositiveSize ==
    chunkSize <= 0
        => /\ cache = << >>
           /\ nextChunkIndex = 0
           /\ returned = << >>
           /\ allocated = 0
           /\ ret.op = "getNext" => ret.status \in { "assert", "rangeError" }

\* getNext was called on a non-empty mesh with a chunk size of 0.
C4_Witness ==
    /\ chunkSize = 0
    /\ numTotalVoxels >= 1
    /\ ret.op = "getNext"
    /\ ret.status = "rangeError"

\* Fractions num/den with den > 0
FracLeq(p, q) == p.num * q.den <= q.num * p.den

FracIs(p, num, den) == p.num * den = num * p.den

\* The spec's two worked examples, computed as _fromVoxelMesh computes them.
ProgressExamples ==
    /\ FracIs(Progress(0, 100, 250), 0, 10) /\ MoreVoxelsToBuffer(0, 100, 250)
    /\ FracIs(Progress(1, 100, 250), 4, 10) /\ MoreVoxelsToBuffer(1, 100, 250)
    /\ FracIs(Progress(2, 100, 250), 8, 10) /\ ~MoreVoxelsToBuffer(2, 100, 250)
    /\ ~StartIndexValid(VoxelsStartIndex(3, 100), 250)
    /\ FracIs(Progress(0, 10, 5), 0, 10) /\ ~MoreVoxelsToBuffer(0, 10, 5)
    /\ ~StartIndexValid(VoxelsStartIndex(1, 10), 5)

\* C5: the progress of every produced chunk is (voxels consumed before the
\* chunk) / N, lies in [0, 1) and does not decrease from one chunk to the
\* next; N = 250, S = 100 gives 0.0, 0.4, 0.8 with moreVoxelsToBuffer true,
\* true, false, and N = 5, S = 10 gives one chunk, 0.0 and false.
C5_ProgressIsConsumedFraction ==
    /\ \A k \in DOMAIN cache :
          LET progress == cache[k].progress
          IN  /\ progress.den = numTotalVoxels
              /\ progress.num = CountBelow(k)
              /\ 0 <= progress.num
              /\ progress.num < progress.den
              /\ \A earlier \in DOMAIN cache :
                    earlier < k => FracLeq(cache[earlier].progress, progress)
    /\ ProgressExamples

\* Three chunks produced, the last with progress 2/3.
C5_Witness ==
    /\ nextChunkIndex = 3
    /\ cache[2].progress = [num |-> 2, den |-> 3]
    /\ cache[1].progress.num = 1
    /\ ret.op = "getNext"

\* C6: in every produced chunk, each of the 36 index entries of local voxel i
\* is the template index plus 24*i, so it lies in [24*i, 24*i + 23] and inside
\* the chunk's 24*count vertices; the last, shorter chunk included.
C6_IndicesStayInOwnVoxel ==
    \A k \in DOMAIN cache :
        LET data == cache[k].buffer.indices.data
            count == Min((k + 1) * chunkSize, numTotalVoxels) - k * chunkSize
        IN  /\ DOMAIN data = 0..(36 * count - 1)
            /\ \A i \in 0..(count - 1) :
                  \A j \in 0..35 :
                      /\ data[36 * i + j] = CubeIndices[j] + 24 * i
                      /\ data[36 * i + j] >= 24 * i
                      /\ data[36 * i + j] <= 24 * i + 23
                      /\ data[36 * i + j] < 24 * count

\* A full chunk of two voxels and the shorter chunk after it.
C6_Witness ==
    /\ numTotalVoxels = 3
    /\ chunkSize = 2
    /\ DOMAIN cache = { 0, 1 }
    /\ cache[0].buffer.indices.data[36 + 35] >= 24
    /\ Length(cache[1].buffer.indices.data) = 36

\* C7: in the chunk with cursor k, component c of vertex v of local voxel i is
\* the template's component plus component c of the position of the snapshot
\* voxel with global index k*S + i.
C7_PositionsUseGlobalVoxel ==
    \A k \in DOMAIN cache :
        LET data == cache[k].buffer.position.data
            count == CountOf(cache[k])
        IN  /\ DOMAIN data = 0..(72 * count - 1)
            /\ \A i \in 0..(count - 1) :
                  \A v \in 0..23 :
                      \A c \in 0..2 :
                          data[72 * i + 3 * v + c] =
                              CubePosition[3 * v + c]
                                  + ToArray(voxels[k * chunkSize + i + 1].position)[c]

\* A later chunk whose first voxel is not the snapshot's first voxel.
C7_Witness ==
    /\ 1 \in DOMAIN cache
    /\ chunkSize = 2
    /\ voxels[3].position # voxels[1].position

\* The occlusion weights a chunk must hold for voxels mesh[lo + 1 .. hi] of a
\* builder constructed from mesh.
OcclusionOf(chunk, mesh, lo, hi) ==
    /\ Length(chunk.buffer.occlusion.data) = OCCLUSION * (hi - lo)
    /\ \A i \in 0..(hi - lo - 1) :
          \A j \in 0..(OCCLUSION - 1) :
              chunk.buffer.occlusion.data[OCCLUSION * i + j] =
                  IF createAmbientOcclusionBuffer
                  THEN GetOcclusions(mesh[lo + i + 1].position, Process(mesh))[j]
                  ELSE OcclusionOne

\* C8: the builder works on the voxel list and count of construction time:
\* however the source model is edited afterwards, getNext produces
\* ceil(N0 / S) chunks for the N0 voxels the constructor saw, and every cached
\* chunk holds the voxels (and occlusion) of that mesh.
C8_SnapshotAtConstruction ==
    LET n0 == Len(constructedFrom)
    IN  /\ voxels = constructedFrom
        /\ numTotalVoxels = n0
        /\ nextChunkIndex <= CeilDiv(n0, chunkSize)
        /\ DOMAIN cache = 0..(nextChunkIndex - 1)
        /\ GetNextFailed => nextChunkIndex = CeilDiv(n0, chunkSize)
        /\ \A k \in DOMAIN cache :
              /\ Covers(cache[k], constructedFrom, k * chunkSize,
                        Min((k + 1) * chunkSize, n0))
              /\ OcclusionOf(cache[k], constructedFrom, k * chunkSize,
                             Min((k + 1) * chunkSize, n0))

\* The source model was emptied after a first chunk, and a second chunk was
\* produced after an edit.
C8_Witness ==
    /\ producedAfterEdit
    /\ voxelMesh = << >>
    /\ Len(constructedFrom) = 3
    /\ constructedFrom[1] # constructedFrom[3]
    /\ nextChunkIndex = 2
    /\ createAmbientOcclusionBuffer

\* C9: for N >= 1 and S >= 1, moreVoxelsToBuffer is false on the chunk with
\* cursor ceil(N/S) - 1 and true on every earlier one, so a caller that stops
\* at the first false has made exactly ceil(N/S) calls; the start-index
\* assertion fails only for a call made after that result.
C9_MoreIsFalseOnLastChunkOnly ==
    numTotalVoxels >= 1
        => /\ \A k \in DOMAIN cache :
                 cache[k].moreVoxelsToBuffer
                     <=> k # CeilDiv(numTotalVoxels, chunkSize) - 1
           /\ (nextChunkIndex >= 1 /\ ~cache[nextChunkIndex - 1].moreVoxelsToBuffer)
                 => Len(returned) = CeilDiv(numTotalVoxels, chunkSize)
           /\ GetNextFailed
                 => /\ nextChunkIndex >= 1
                    /\ ~cache[nextChunkIndex - 1].moreVoxelsToBuffer

\* The second, shorter chunk has just been returned with the flag false.
C9_Witness ==
    /\ numTotalVoxels = 3
    /\ chunkSize = 2
    /\ ret.op = "getNext"
    /\ ret.status = "ok"
    /\ nextChunkIndex = 2
    /\ cache[0].moreVoxelsToBuffer
    /\ ~cache[1].moreVoxelsToBuffer

\* C10: the cached indices are exactly 0 .. cursor - 1; the cursor never
\* decreases and no entry is removed or replaced; a successful getNext adds
\* the one entry at the old cursor and advances the cursor by one; a failing
\* getNext and a getFromIndex change neither cursor nor cache, and build
\* nothing.
C10_CacheIsPrefixOfCursor ==
    /\ [](DOMAIN cache = 0..(nextChunkIndex - 1))
    /\ [][ /\ nextChunkIndex' >= nextChunkIndex
           /\ \A k \in DOMAIN cache : k \in DOMAIN cache' /\ cache'[k] = cache[k]
           /\ (ret'.op = "getNext" /\ ret'.status = "ok")
                 => /\ nextChunkIndex' = nextChunkIndex + 1
                    /\ DOMAIN cache' = (DOMAIN cache) \cup { nextChunkIndex }
                    /\ nextChunkIndex \notin DOMAIN cache
                    /\ cache'[nextChunkIndex].id = ret'.obj
           /\ (ret'.op = "getNext" /\ ret'.status # "ok")
                 => /\ nextChunkIndex' = nextChunkIndex
                    /\ cache' = cache
           /\ ret'.op = "getFromIndex"
                 => /\ nextChunkIndex' = nextChunkIndex
                    /\ cache' = cache
                    /\ allocated' = allocated ]_vars

\* All three calls seen: chunks cached, the cursor past them, a failed getNext
\* behind and a lookup of an index never produced just made.
C10_Witness ==
    /\ nextChunkIndex = 2
    /\ DOMAIN cache = { 0, 1 }
    /\ ret.op = "getFromIndex"
    /\ ret.arg = 2
    /\ ret.status = "undefined"

====
